---- MODULE Spec2Model ----
(***************************************************************************)
(* A model of the strict-types type algebra: the type AST Ty<Ref> with its *)
(* classification, structural predicates and key narrowing (ast/ty.rs),    *)
(* the confined field/variant collections, the TypeSystem map and its      *)
(* armored text (typesys/type_sys.rs), the identity of a type library      *)
(* (typelib/id.rs), and the counting writer with the serialization and     *)
(* deserialization built on it (encoding/write.rs, encoding/traits.rs).    *)
(*                                                                         *)
(* Each part of the program is a domain with its own variables, initial    *)
(* state and specification; a specification leaves the other domains idle. *)
(*                                                                         *)
(* Pure functions are operators; each has an action that applies it to an  *)
(* input drawn by the initial state and stores what it returned.           *)
(***************************************************************************)
EXTENDS Integers, Sequences, FiniteSets, TLC

VARIABLES
    cls,        \* Cls domain: the class handed to From<Cls> for u8, or NoCls
    byte,       \* Cls domain: the byte handed to Cls::try_from, or NoByte
    clsRes,     \* Cls domain: what Cls::try_from returned
    ty,         \* Ty domain: the Ty<Ref> value under inspection
    keyRes,     \* Ty domain: what Ty::try_to_key returned
    optRes,     \* Ty domain: what Ty::is_option returned
    cmpRes,     \* Ty domain: what Ty::is_compound returned
    fmtRes,     \* Ty domain: what Display::fmt produced (or a panic)
    tyCls,      \* Ty domain: what Ty::cls returned
    keyCls,     \* Ty domain: what KeyTy::cls returned for the narrowed key
    coll,       \* Confined domain: the collection handed to try_from
    confRes,    \* Confined domain: what try_from returned
    innerRes,   \* Confined domain: what into_inner returned
    sys,        \* TypeSystem domain: the map TypeFqid -> Ty<SemId>
    insRes,     \* TypeSystem domain: what the last insert_unchecked returned
    insRefused, \* TypeSystem domain: the key of the last insert_unchecked, if it returned Err
    insOk,      \* TypeSystem domain: the keys insert_unchecked returned Ok for
    libA,       \* TypeLib domain: a library
    libB,       \* TypeLib domain: a second library, built independently
    lastA,      \* TypeLib domain: the last insert into libA, with what it replaced
    lastB,      \* TypeLib domain: the last insert into libB, with what it replaced
    idA,        \* TypeLib domain: what libA.id() returned since libA last changed
    idB,        \* TypeLib domain: what libB.id() returned since libB last changed
    cw,         \* CountingWriter domain: the writer (count, limit, inner writer)
    cwWrap,     \* CountingWriter domain: TRUE when the build wraps on overflow
    cwBuf,      \* CountingWriter domain: the buffer of the last write call
    cwRes,      \* CountingWriter domain: what the last write call returned
    serVal,     \* Serialize domain: the value, as the lengths of the buffers its encoder writes
    serMax,     \* Serialize domain: the MAX of to_strict_serialized::<MAX>
    serWrap,    \* Serialize domain: TRUE when the build wraps on overflow
    serRes,     \* Serialize domain: what to_strict_serialized::<MAX> returned
    lenRes,     \* Serialize domain: what strict_serialized_len returned
    dsData,     \* Deserialize domain: the bytes handed in, in memory and as a file
    dsMax,      \* Deserialize domain: the MAX of the two functions
    dsOpen,     \* Deserialize domain: TRUE when the file can be opened
    memRes,     \* Deserialize domain: what from_strict_serialized returned
    fileRes,    \* Deserialize domain: what strict_deserialize_from_file returned
    armVal,     \* Armor domain: the type system, as the buffers its encoder writes
    armWrap,    \* Armor domain: TRUE when the build wraps on overflow
    armRes,     \* Armor domain: the lines UpperHex::fmt wrote (or a panic)
    sw,         \* StructWriter domain: the StrictWriter, the StructWriter made of it, or what complete returned
    swWrap,     \* StructWriter domain: TRUE in a build without overflow checks
    swLog,      \* StructWriter domain: the write_field / write_field_ord calls so far
    swRes       \* StructWriter domain: what the last call returned

varsCls == <<cls, byte, clsRes>>
varsTy == <<ty, keyRes, optRes, cmpRes, fmtRes, tyCls, keyCls>>
varsConf == <<coll, confRes, innerRes>>
varsSys == <<sys, insRes, insRefused, insOk>>
varsLib == <<libA, libB, lastA, lastB, idA, idB>>
varsCw == <<cw, cwWrap, cwBuf, cwRes>>
varsSer == <<serVal, serMax, serWrap, serRes, lenRes>>
varsDe == <<dsData, dsMax, dsOpen, memRes, fileRes>>
varsArm == <<armVal, armWrap, armRes>>
varsSw == <<sw, swWrap, swLog, swRes>>
vars == <<varsCls, varsTy, varsConf, varsSys, varsLib, varsCw, varsSer, varsDe, varsArm, varsSw>>

\* What the actions of one domain leave alone: the state of every other one.
othersCls == <<varsTy, varsConf, varsSys, varsLib, varsCw, varsSer, varsDe, varsArm, varsSw>>
othersTy == <<varsCls, varsConf, varsSys, varsLib, varsCw, varsSer, varsDe, varsArm, varsSw>>
othersConf == <<varsCls, varsTy, varsSys, varsLib, varsCw, varsSer, varsDe, varsArm, varsSw>>
othersSys == <<varsCls, varsTy, varsConf, varsLib, varsCw, varsSer, varsDe, varsArm, varsSw>>
othersLib == <<varsCls, varsTy, varsConf, varsSys, varsCw, varsSer, varsDe, varsArm, varsSw>>
othersCw == <<varsCls, varsTy, varsConf, varsSys, varsLib, varsSer, varsDe, varsArm, varsSw>>
othersSer == <<varsCls, varsTy, varsConf, varsSys, varsLib, varsCw, varsDe, varsArm, varsSw>>
othersDe == <<varsCls, varsTy, varsConf, varsSys, varsLib, varsCw, varsSer, varsArm, varsSw>>
othersArm == <<varsCls, varsTy, varsConf, varsSys, varsLib, varsCw, varsSer, varsDe, varsSw>>
othersSw == <<varsCls, varsTy, varsConf, varsSys, varsLib, varsCw, varsSer, varsDe, varsArm>>

(***************************************************************************)
(* Results: Rust's Result<T, E>, Option<T> and "not called yet".           *)
(***************************************************************************)
Unset == [st |-> "unset"]
Ok(v) == [st |-> "ok", val |-> v]
Err(e) == [st |-> "err", err |-> e]
Panic(msg) == [st |-> "panic", msg |-> msg]
None == [st |-> "none"]
Some(v) == [st |-> "some", val |-> v]

(***************************************************************************)
(* Widths of the program's integer types.                                  *)
(***************************************************************************)
U8_MAX == 255

(***************************************************************************)
(* Cls: the 11-way classification tag and its u8 discriminant.             *)
(***************************************************************************)
NoCls == "-"
NoByte == 0 - 1

\* enum Cls, #[repr(u8)]: the discriminant of each class.
ClsAsU8(c) ==
    CASE c = "Primitive" -> 0
      [] c = "Unicode" -> 1
      [] c = "AsciiStr" -> 2
      [] c = "Enum" -> 3
      [] c = "Union" -> 4
      [] c = "Struct" -> 5
      [] c = "Tuple" -> 6
      [] c = "Array" -> 7
      [] c = "List" -> 8
      [] c = "Set" -> 9
      [] c = "Map" -> 10

\* A plausible slip: the last class left out of the table.
Cls_ALL_short ==
    << "Primitive", "Unicode", "AsciiStr", "Enum", "Union", "Struct", "Tuple",
       "Array", "List", "Set" >>

\* Cls::ALL
Cls_ALL ==
    << "Primitive", "Unicode", "AsciiStr", "Enum", "Union", "Struct", "Tuple",
       "Array", "List", "Set", "Map" >>

ClsValues == { Cls_ALL[i] : i \in 1..Len(Cls_ALL) }

\* From<Cls> for u8
Cls_into_u8(value) == ClsAsU8(value)

\* TryFrom<u8> for Cls: the first class of Cls::ALL whose discriminant is value.
RECURSIVE Cls_scan(_, _)
Cls_scan(value, i) ==
    IF i > Len(Cls_ALL)
    THEN Err([type |-> "Cls", value |-> value])
    ELSE IF ClsAsU8(Cls_ALL[i]) = value
         THEN Ok(Cls_ALL[i])
         ELSE Cls_scan(value, i + 1)

Cls_try_from(value) == Cls_scan(value, 1)

(***************************************************************************)
(* Bounds of the model.                                                    *)
(***************************************************************************)
MaxTag == 3          \* variant tags are drawn from 0..MaxTag
MaxSemId == 1        \* semantic ids are drawn from 0..MaxSemId
MaxFields == 2       \* structs and tuples of the Ty domain have 1..MaxFields fields

(***************************************************************************)
(* TypeRef: what a Ty<Ref> refers to its parts by.  SemId and KeyTy are    *)
(* the two implementers of ast/ty.rs; neither overrides the predicates.    *)
(* A "Custom" reference stands for any other implementer: it answers the   *)
(* three predicates as it likes.                                           *)
(***************************************************************************)
SemIds == 0..MaxSemId
SemIdRef(id) == [kind |-> "SemId", id |-> id]
KeyTyRef(key) == [kind |-> "KeyTy", key |-> key]
CustomRef(id, b, u, a) == [kind |-> "Custom", id |-> id, byte |-> b, uni |-> u, ascii |-> a]

\* An is_byte that a KeyTy reference overrides: true for the byte primitive.
Ref_is_byte_keyty(r) ==
    IF r.kind = "Custom" THEN r.byte
    ELSE r.kind = "KeyTy" /\ r.key = [tag |-> "Primitive", code |-> "Byte"]

\* TypeRef::is_byte: `false` unless the implementer overrides it.
Ref_is_byte(r) == IF r.kind = "Custom" THEN r.byte ELSE FALSE

\* TypeRef::is_unicode_char
Ref_is_unicode_char(r) == IF r.kind = "Custom" THEN r.uni ELSE FALSE

\* TypeRef::is_ascii_char
Ref_is_ascii_char(r) == IF r.kind = "Custom" THEN r.ascii ELSE FALSE

(***************************************************************************)
(* Sizing and Variant (strict_encoding).                                   *)
(***************************************************************************)
Sizing_new(min, max) == [min |-> min, max |-> max]
Sizing_fixed(len) == [min |-> len, max |-> len]
Sizing_ONE == [min |-> 1, max |-> 1]

Variant_named(tag, name) == [name |-> name, tag |-> tag]
Variant_none == [name |-> "none", tag |-> 0]
Variant_some == [name |-> "some", tag |-> 1]

\* Ord for Variant: variants are ordered by tag, and two variants that share
\* a tag or a name are the same key, so tags and names are unique within a
\* collection.  a and b are records with a name and a tag.
Variant_cmp(a, b) ==
    IF a.tag = b.tag \/ a.name = b.name THEN "Equal"
    ELSE IF a.tag < b.tag THEN "Less"
    ELSE "Greater"

\* BTreeMap::get on a map held as the sequence of its entries in key order
\* (one node: the keys are searched from the first until one is not smaller).
RECURSIVE BTreeMap_search(_, _, _)
BTreeMap_search(m, key, i) ==
    IF i > Len(m) THEN None
    ELSE LET c == Variant_cmp(key, m[i])
         IN IF c = "Greater" THEN BTreeMap_search(m, key, i + 1)
            ELSE IF c = "Equal" THEN Some(m[i].ty)
            ELSE None

BTreeMap_get(m, key) == BTreeMap_search(m, key, 1)

(***************************************************************************)
(* Ty<Ref> and KeyTy.                                                      *)
(***************************************************************************)
TyPrimitive(code) == [tag |-> "Primitive", code |-> code]
TyUnicodeChar == [tag |-> "UnicodeChar"]
TyEnum(vs) == [tag |-> "Enum", variants |-> vs]
TyUnion(vs) == [tag |-> "Union", variants |-> vs]
TyTuple(fields) == [tag |-> "Tuple", fields |-> fields]
TyStruct(fields) == [tag |-> "Struct", fields |-> fields]
TyArray(r, len) == [tag |-> "Array", ref |-> r, len |-> len]
TyList(r, sizing) == [tag |-> "List", ref |-> r, sizing |-> sizing]
TySet(r, sizing) == [tag |-> "Set", ref |-> r, sizing |-> sizing]
TyMap(key, r, sizing) == [tag |-> "Map", key |-> key, ref |-> r, sizing |-> sizing]

KeyPrimitive(code) == [tag |-> "Primitive", code |-> code]
KeyEnum(vs) == [tag |-> "Enum", variants |-> vs]
KeyArray(len) == [tag |-> "Array", len |-> len]
KeyUnicodeStr(sizing) == [tag |-> "UnicodeStr", sizing |-> sizing]
KeyAsciiStr(sizing) == [tag |-> "AsciiStr", sizing |-> sizing]
KeyBytes(sizing) == [tag |-> "Bytes", sizing |-> sizing]

\* Ty::cls
Ty_cls(t) ==
    CASE t.tag = "Primitive" -> "Primitive"
      [] t.tag = "Enum" -> "Enum"
      [] t.tag = "Union" -> "Union"
      [] t.tag = "Struct" -> "Struct"
      [] t.tag = "Tuple" -> "Tuple"
      [] t.tag = "Array" -> "Array"
      [] t.tag = "UnicodeChar" -> "Unicode"
      [] t.tag = "List" -> "List"
      [] t.tag = "Set" -> "Set"
      [] t.tag = "Map" -> "Map"

\* A plausible slip: byte strings classed with the byte arrays.
KeyTy_cls_bytes_as_array(k) ==
    CASE k.tag = "Primitive" -> "Primitive"
      [] k.tag = "Enum" -> "Enum"
      [] k.tag = "Array" -> "Array"
      [] k.tag = "UnicodeStr" -> "Unicode"
      [] k.tag = "AsciiStr" -> "AsciiStr"
      [] k.tag = "Bytes" -> "Array"

\* KeyTy::cls
KeyTy_cls(k) ==
    CASE k.tag = "Primitive" -> "Primitive"
      [] k.tag = "Enum" -> "Enum"
      [] k.tag = "Array" -> "Array"
      [] k.tag = "UnicodeStr" -> "Unicode"
      [] k.tag = "AsciiStr" -> "AsciiStr"
      [] k.tag = "Bytes" -> "List"

\* A plausible slip: the optional shape recognised by the names alone,
\* wherever the two variants sit.
Ty_is_option_by_name(t) ==
    /\ t.tag = "Union"
    /\ Len(t.variants) = 2
    /\ \E i \in 1..2 : t.variants[i].name = "none"
    /\ \E i \in 1..2 : t.variants[i].name = "some"

\* Ty::is_option
Ty_is_option(t) ==
    /\ t.tag = "Union"
    /\ Len(t.variants) = 2
    /\ t.variants[1].name = "none"
    /\ t.variants[2].name = "some"

\* A plausible slip: every struct counted as compound.
Ty_is_compound_any_struct(t) ==
    \/ t.tag = "Struct" /\ Len(t.fields) > 0
    \/ t.tag \in {"Enum", "Union"} /\ ~Ty_is_option(t)

\* Ty::is_compound
Ty_is_compound(t) ==
    \/ t.tag = "Struct" /\ Len(t.fields) > 1
    \/ t.tag \in {"Enum", "Union"} /\ ~Ty_is_option(t)

\* A plausible slip: an array of ascii chars narrowed like a list of them.
Ty_try_to_key_ascii_array(t) ==
    IF t.tag = "Primitive" THEN Ok(KeyPrimitive(t.code))
    ELSE IF t.tag = "Enum" THEN Ok(KeyEnum(t.variants))
    ELSE IF t.tag = "Array" /\ Ref_is_byte(t.ref) THEN Ok(KeyArray(t.len))
    ELSE IF t.tag = "List" /\ Ref_is_byte(t.ref) THEN Ok(KeyBytes(t.sizing))
    ELSE IF t.tag = "Array" /\ Ref_is_unicode_char(t.ref)
         THEN Ok(KeyUnicodeStr(Sizing_fixed(t.len)))
    ELSE IF t.tag = "List" /\ Ref_is_unicode_char(t.ref) THEN Ok(KeyUnicodeStr(t.sizing))
    ELSE IF t.tag = "List" /\ Ref_is_ascii_char(t.ref) THEN Ok(KeyAsciiStr(t.sizing))
    ELSE IF t.tag = "Array" /\ Ref_is_ascii_char(t.ref)
         THEN Ok(KeyAsciiStr(Sizing_fixed(t.len)))
    ELSE IF t.tag = "UnicodeChar" THEN Ok(KeyUnicodeStr(Sizing_ONE))
    ELSE Err(t)

\* A plausible slip: the unicode arms tried before the byte arms.
Ty_try_to_key_unicode_first(t) ==
    CASE t.tag = "Primitive" -> Ok(KeyPrimitive(t.code))
      [] t.tag = "Enum" -> Ok(KeyEnum(t.variants))
      [] t.tag = "Array" ->
            IF Ref_is_unicode_char(t.ref) THEN Ok(KeyUnicodeStr(Sizing_fixed(t.len)))
            ELSE IF Ref_is_byte(t.ref) THEN Ok(KeyArray(t.len))
            ELSE Err(t)
      [] t.tag = "List" ->
            IF Ref_is_unicode_char(t.ref) THEN Ok(KeyUnicodeStr(t.sizing))
            ELSE IF Ref_is_byte(t.ref) THEN Ok(KeyBytes(t.sizing))
            ELSE IF Ref_is_ascii_char(t.ref) THEN Ok(KeyAsciiStr(t.sizing))
            ELSE Err(t)
      [] t.tag = "UnicodeChar" -> Ok(KeyUnicodeStr(Sizing_ONE))
      [] OTHER -> Err(t)

\* Ty::try_to_key: the arms of the match in their order; an Array or a List
\* that no guarded arm takes falls to the last arm with the other composites.
Ty_try_to_key(t) ==
    IF t.tag = "Primitive" THEN Ok(KeyPrimitive(t.code))
    ELSE IF t.tag = "Enum" THEN Ok(KeyEnum(t.variants))
    ELSE IF t.tag = "Array" /\ Ref_is_byte(t.ref) THEN Ok(KeyArray(t.len))
    ELSE IF t.tag = "List" /\ Ref_is_byte(t.ref) THEN Ok(KeyBytes(t.sizing))
    ELSE IF t.tag = "Array" /\ Ref_is_unicode_char(t.ref)
         THEN Ok(KeyUnicodeStr(Sizing_fixed(t.len)))
    ELSE IF t.tag = "List" /\ Ref_is_unicode_char(t.ref) THEN Ok(KeyUnicodeStr(t.sizing))
    ELSE IF t.tag = "List" /\ Ref_is_ascii_char(t.ref) THEN Ok(KeyAsciiStr(t.sizing))
    ELSE IF t.tag = "UnicodeChar" THEN Ok(KeyUnicodeStr(Sizing_ONE))
    ELSE Err(t)

(***************************************************************************)
(* Display.  A text is the sequence of its pieces.                         *)
(***************************************************************************)
RECURSIVE Join(_, _)
\* The texts of the sequence parts, with sep between neighbours.
Join(parts, sep) ==
    IF Len(parts) = 0 THEN << >>
    ELSE IF Len(parts) = 1 THEN parts[1]
    ELSE parts[1] \o sep \o Join(Tail(parts), sep)

Sizing_fmt(s) == << "{", ToString(s.min), ",", ToString(s.max), "}" >>
Variant_fmt(v) == << v.name >>

\* Display for EnumVariants
EnumVariants_fmt(vs) == Join([i \in 1..Len(vs) |-> Variant_fmt(vs[i])], << " | " >>)

\* Display for KeyTy (the derive's display attributes)
KeyTy_fmt(k) ==
    CASE k.tag = "Primitive" -> << k.code >>
      [] k.tag = "Enum" -> << "(" >> \o EnumVariants_fmt(k.variants) \o << ")" >>
      [] k.tag = "Array" -> << "[Byte ^ ", ToString(k.len), "]" >>
      [] k.tag = "UnicodeStr" -> << "[Unicode" >> \o Sizing_fmt(k.sizing) \o << "]" >>
      [] k.tag = "AsciiStr" -> << "[Ascii" >> \o Sizing_fmt(k.sizing) \o << "]" >>
      [] k.tag = "Bytes" -> << "[Byte" >> \o Sizing_fmt(k.sizing) \o << "]" >>

\* Display for a reference (the `Ref: Display` bound of Display for Ty)
Ref_fmt(r) ==
    CASE r.kind = "SemId" -> << "#", ToString(r.id) >>
      [] r.kind = "KeyTy" -> KeyTy_fmt(r.key)
      [] r.kind = "Custom" -> << "ref", ToString(r.id) >>

\* Display for UnionVariants
UnionVariants_fmt(vs) ==
    Join([i \in 1..Len(vs) |-> Variant_fmt(vs[i]) \o << " " >> \o Ref_fmt(vs[i].ty)],
         << " | " >>)

\* Display for NamedFields
NamedFields_fmt(fs) ==
    Join([i \in 1..Len(fs) |-> << fs[i].name, " " >> \o Ref_fmt(fs[i].ty)], << ", " >>)

\* Display for UnnamedFields
UnnamedFields_fmt(fs) ==
    << "(" >> \o Join([i \in 1..Len(fs) |-> Ref_fmt(fs[i])], << ", " >>) \o << ")" >>

\* Display for Ty: Ok(text), or the panic of `expect("optional")`.
Ty_fmt(t) ==
    CASE t.tag = "Primitive" -> Ok(<< t.code >>)
      [] t.tag = "Enum" -> Ok(EnumVariants_fmt(t.variants))
      [] t.tag = "Union" ->
            IF Ty_is_option(t)
            THEN LET found == BTreeMap_get(t.variants, Variant_some)
                 IN IF found = None THEN Panic("optional")
                    ELSE Ok(Ref_fmt(found.val) \o << "?" >>)
            ELSE Ok(UnionVariants_fmt(t.variants))
      [] t.tag = "Struct" -> Ok(NamedFields_fmt(t.fields))
      [] t.tag = "Tuple" -> Ok(UnnamedFields_fmt(t.fields))
      [] t.tag = "Array" -> Ok(<< "[" >> \o Ref_fmt(t.ref) \o << " ^ ", ToString(t.len), "]" >>)
      [] t.tag = "UnicodeChar" -> Ok(<< "Unicode" >>)
      [] t.tag = "List" -> Ok(<< "[" >> \o Ref_fmt(t.ref) \o Sizing_fmt(t.sizing) \o << "]" >>)
      [] t.tag = "Set" -> Ok(<< "{" >> \o Ref_fmt(t.ref) \o Sizing_fmt(t.sizing) \o << "}" >>)
      [] t.tag = "Map" ->
            Ok(<< "{" >> \o KeyTy_fmt(t.key) \o << " ->" >> \o Sizing_fmt(t.sizing)
               \o << " " >> \o Ref_fmt(t.ref) \o << "}" >>)

(***************************************************************************)
(* The Ty values the Ty domain inspects.                                   *)
(***************************************************************************)
PrimCodes == {"Unit", "Byte", "U8"}
Sizings == {Sizing_ONE, Sizing_new(0, U8_MAX)}
ArrayLens == {1, 20}
VNames == {"none", "some", "maybe"}
FNames == {"a", "b"}
Tags == 0..MaxTag

SemIdRefs == { SemIdRef(i) : i \in SemIds }
CustomRefs == { CustomRef(0, b, u, a) : b \in BOOLEAN, u \in BOOLEAN, a \in BOOLEAN }
KeyTyRefs == { KeyTyRef(KeyPrimitive("Byte")), KeyTyRef(KeyUnicodeStr(Sizing_ONE)) }
ElemRefs == SemIdRefs \cup CustomRefs \cup KeyTyRefs
KeyTys == { KeyPrimitive("U8"), KeyBytes(Sizing_ONE) }

\* The tag sequences and name sequences of a collection keyed by Variant with
\* n members: tags ascending, no tag and no name twice.
IncTags(n) == { s \in [1..n -> Tags] : \A i \in 1..(n - 1) : s[i] < s[i + 1] }
InjNames(n) == { s \in [1..n -> VNames] : \A i \in 1..n : \A j \in 1..n : s[i] = s[j] => i = j }

\* BTreeSet<Variant> values, in key order.
VariantSets(n) ==
    { [i \in 1..n |-> Variant_named(tg[i], nm[i])] : tg \in IncTags(n), nm \in InjNames(n) }

\* BTreeMap<Variant, Ref> values, in key order.
VariantMaps(n) ==
    { [i \in 1..n |-> [name |-> nm[i], tag |-> tg[i], ty |-> rf[i]]] :
        tg \in IncTags(n), nm \in InjNames(n), rf \in [1..n -> SemIdRefs] }

FieldSeqs(n) == [1..n -> [name : FNames, ty : SemIdRefs]]
RefSeqs(n) == [1..n -> SemIdRefs]

TyInputs ==
    { TyPrimitive(c) : c \in PrimCodes }
    \cup { TyUnicodeChar }
    \cup UNION { { TyEnum(vs) : vs \in VariantSets(n) } : n \in 1..2 }
    \cup UNION { { TyUnion(vs) : vs \in VariantMaps(n) } : n \in 1..Cardinality(VNames) }
    \cup UNION { { TyTuple(fs) : fs \in RefSeqs(n) } : n \in 1..MaxFields }
    \cup UNION { { TyStruct(fs) : fs \in FieldSeqs(n) } : n \in 1..MaxFields }
    \cup { TyArray(r, len) : r \in ElemRefs, len \in ArrayLens }
    \cup { TyList(r, sz) : r \in ElemRefs, sz \in Sizings }
    \cup { TySet(r, sz) : r \in ElemRefs, sz \in Sizings }
    \cup { TyMap(k, r, sz) : k \in KeyTys, r \in SemIdRefs, sz \in Sizings }

(***************************************************************************)
(* Confined collections: NamedFields, UnnamedFields, UnionVariants and     *)
(* EnumVariants wrap Confined<_, 1, u8::MAX>.  A Vec is the sequence of    *)
(* its elements, a BTreeMap or BTreeSet the sequence of its members in key *)
(* order.                                                                  *)
(***************************************************************************)
MaxVecLen == 257     \* vectors handed to try_from have 0..MaxVecLen elements

\* Confined::<C, MIN, MAX>::try_from: the collection itself when its length
\* is within MIN..MAX, the bounds error otherwise.
Confined_try_from(col, min_len, max_len) ==
    IF Len(col) < min_len
    THEN Err([error |-> "Undersize", len |-> Len(col), bound |-> min_len])
    ELSE IF Len(col) > max_len
         THEN Err([error |-> "Oversize", len |-> Len(col), bound |-> max_len])
         ELSE Ok(col)

\* Result::map(f)
Result_map(r, wrapper) ==
    IF r.st = "ok" THEN Ok([wrapper |-> wrapper, inner |-> r.val]) ELSE r

\* A plausible slip: the lower bound of the confinement left at 0.
NamedFields_try_from_min0(inner) ==
    Result_map(Confined_try_from(inner, 0, U8_MAX), "NamedFields")

\* TryFrom<Vec<Field<Ref>>> for NamedFields
NamedFields_try_from(inner) ==
    Result_map(Confined_try_from(inner, 1, U8_MAX), "NamedFields")

\* TryFrom<Vec<Ref>> for UnnamedFields
UnnamedFields_try_from(inner) ==
    Result_map(Confined_try_from(inner, 1, U8_MAX), "UnnamedFields")

\* TryFrom<BTreeMap<Variant, Ref>> for UnionVariants
UnionVariants_try_from(inner) ==
    Result_map(Confined_try_from(inner, 1, U8_MAX), "UnionVariants")

\* TryFrom<BTreeSet<Variant>> for EnumVariants
EnumVariants_try_from(inner) ==
    Result_map(Confined_try_from(inner, 1, U8_MAX), "EnumVariants")

\* NamedFields::into_inner
NamedFields_into_inner(self) == self.inner
\* UnnamedFields::into_inner
UnnamedFields_into_inner(self) == self.inner
\* UnionVariants::into_inner
UnionVariants_into_inner(self) == self.inner
\* EnumVariants::into_inner
EnumVariants_into_inner(self) == self.inner

\* The collections handed to try_from: n members, the references they hold
\* varied by the seed s.  Tags are u8, so a collection keyed by Variant has
\* at most U8_MAX + 1 members.
ConfSeeds == 0..MaxSemId
RefAt(i, s) == SemIdRef((i + s) % (MaxSemId + 1))
FieldVec(n, s) == [i \in 1..n |-> [name |-> ToString(i), ty |-> RefAt(i, s)]]
RefVec(n, s) == [i \in 1..n |-> RefAt(i, s)]
VariantMap(n, s) == [i \in 1..n |-> [name |-> ToString(i - 1), tag |-> i - 1, ty |-> RefAt(i, s)]]
VariantSet(n) == [i \in 1..n |-> Variant_named(i - 1, ToString(i - 1))]

ConfInputs ==
    { [kind |-> "NamedFields", items |-> FieldVec(n, s)] : n \in 0..MaxVecLen, s \in ConfSeeds }
    \cup { [kind |-> "UnnamedFields", items |-> RefVec(n, s)] : n \in 0..MaxVecLen, s \in ConfSeeds }
    \cup { [kind |-> "UnionVariants", items |-> VariantMap(n, s)] :
             n \in 0..(U8_MAX + 1), s \in ConfSeeds }
    \cup { [kind |-> "EnumVariants", items |-> VariantSet(n)] : n \in 0..(U8_MAX + 1) }

(***************************************************************************)
(* TypeSystem: MediumOrdMap<TypeFqid, Ty<SemId>>, a map confined to at     *)
(* most 2^24 - 1 entries, held as a function from its keys to its values.  *)
(***************************************************************************)
U24_MAX == 2^24 - 1

\* TypeFqid::unnamed
TypeFqid_unnamed(id) == [id |-> id, fqn |-> None]
\* TypeFqid::named
TypeFqid_named(id, lib, name) == [id |-> id, fqn |-> Some([lib |-> lib, name |-> name])]

\* TypeSystem::new. A system is its map; of the map the model keeps the
\* entries under the keys it calls insert_unchecked with (map) and the number
\* of entries under any other key (rest).
TypeSystem_new == [map |-> << >>, rest |-> 0]

\* BTreeMap::len
BTreeMap_len(map) == Cardinality(DOMAIN map.map) + map.rest

\* TypeSystem::count_types
TypeSystem_count_types(self) == BTreeMap_len(self)

\* BTreeMap::insert: the map with key bound to value, and the value the key
\* was bound to before.
BTreeMap_insert(map, key, value) ==
    [ map |-> [ map EXCEPT !.map =
                  [k \in (DOMAIN map.map) \cup {key} |-> IF k = key THEN value ELSE map.map[k]] ],
      old |-> IF key \in DOMAIN map.map THEN Some(map.map[key]) ELSE None ]

\* Confined::<BTreeMap, MIN, MAX>::insert: a full map takes nothing more and
\* is left as it was.
Confined_insert(map, key, value, max_len) ==
    IF BTreeMap_len(map) >= max_len
    THEN [ map |-> map,
           res |-> Err([error |-> "Oversize", len |-> BTreeMap_len(map) + 1, bound |-> max_len]) ]
    ELSE LET ins == BTreeMap_insert(map, key, value)
         IN [ map |-> ins.map, res |-> Ok(ins.old) ]

\* A system whose insert_unchecked confines the map to one entry more.
TypeSystem_insert_unchecked_2pow24(self, fqid, t) ==
    LET ins == Confined_insert(self, fqid, t, U24_MAX + 1)
    IN [ self |-> ins.map,
         res |-> IF ins.res.st = "ok" THEN Ok(ins.res.val.st = "some") ELSE ins.res ]

\* TypeSystem::insert_unchecked: the system after the call and what the call
\* returned, Ok(true) when the key was bound before.
TypeSystem_insert_unchecked(self, fqid, t) ==
    LET ins == Confined_insert(self, fqid, t, U24_MAX)
    IN [ self |-> ins.map,
         res |-> IF ins.res.st = "ok" THEN Ok(ins.res.val.st = "some") ELSE ins.res ]

\* The keys and the definitions insert_unchecked is called with.
Fqids == { TypeFqid_unnamed(i) : i \in SemIds } \cup { TypeFqid_named(0, "lib", "A") }
SysTys ==
    { TyPrimitive("U8") }
    \cup { TyList(r, Sizing_ONE) : r \in SemIdRefs }
    \cup { TyTuple(<< r1, r2 >>) : r1 \in SemIdRefs, r2 \in SemIdRefs }

\* The entries a nearly full system holds under other keys: two short of the
\* most the map takes.
SysRest == U24_MAX - 2

(***************************************************************************)
(* TypeLib identity (typelib/id.rs).                                       *)
(***************************************************************************)
\* LIB_ID_TAG, the 32-byte key of the library hash.
LIB_ID_TAG == "urn:ubideco:strict-types:lib:v01"

\* The type names of a library, in their order (TypeName: Ord).
TypeNames == << "Alpha", "Beta" >>
TypeName_rank(name) == CHOOSE i \in 1..Len(TypeNames) : TypeNames[i] = name
TypeName_lt(a, b) == TypeName_rank(a) < TypeName_rank(b)

\* A member type of a library, of which the model keeps the identity.
LibType(id) == [id |-> id]
LibTypes == { LibType(i) : i \in SemIds }

\* ty.id().as_slice(): the bytes of a SemId, a fixed number of them for every
\* id (two here, most significant first).
SemId_as_slice(id) == << id \div 16, id % 16 >>

\* The types map of a library: its entries in ascending order of their names.
\* BTreeMap::insert puts a new name at its place in the order and rebinds a
\* name that is already there; it returns the type the name was bound to.
RECURSIVE TypeMap_insert(_, _, _)
TypeMap_insert(types, name, t) ==
    IF types = << >>
    THEN [ types |-> << [name |-> name, ty |-> t] >>, old |-> None ]
    ELSE IF Head(types).name = name
    THEN [ types |-> << [name |-> name, ty |-> t] >> \o Tail(types), old |-> Some(Head(types).ty) ]
    ELSE IF TypeName_lt(name, Head(types).name)
    THEN [ types |-> << [name |-> name, ty |-> t] >> \o types, old |-> None ]
    ELSE LET rest == TypeMap_insert(Tail(types), name, t)
         IN [ types |-> << Head(types) >> \o rest.types, old |-> rest.old ]

\* BTreeMap::values: the member types in the order of the map.
TypeMap_values(types) == [ i \in 1..Len(types) |-> types[i].ty ]

\* A library with no type, and a library with one more type.
TypeLib_empty == [ types |-> << >> ]
TypeLib_insert(self, name, t) ==
    LET ins == TypeMap_insert(self.types, name, t)
    IN [ self |-> [ self EXCEPT !.types = ins.types ], old |-> ins.old ]

\* blake3::Hasher: new_keyed, update, finalize. The digest is modelled as the
\* key with everything the hasher was fed, so that different inputs have
\* different digests.
Blake3_new_keyed(key) == [ key |-> key, data |-> << >> ]
Blake3_update(hasher, bytes) == [ hasher EXCEPT !.data = @ \o bytes ]
Blake3_finalize(hasher) == hasher

\* The loop of TypeLib::id: hasher.update(ty.id().as_slice()) for each value.
RECURSIVE TypeLib_id_loop(_, _)
TypeLib_id_loop(hasher, values) ==
    IF values = << >> THEN hasher
    ELSE TypeLib_id_loop(Blake3_update(hasher, SemId_as_slice(Head(values).id)), Tail(values))

\* A library id that hashes the values from the last to the first.
RECURSIVE TypeLib_id_loop_rev(_, _)
TypeLib_id_loop_rev(hasher, values) ==
    IF values = << >> THEN hasher
    ELSE Blake3_update(TypeLib_id_loop_rev(hasher, Tail(values)), SemId_as_slice(Head(values).id))
TypeLib_id_reversed(self) ==
    Blake3_finalize(TypeLib_id_loop_rev(Blake3_new_keyed(LIB_ID_TAG), TypeMap_values(self.types)))

\* A library id that hashes the first value only.
TypeLib_id_first(self) ==
    LET values == TypeMap_values(self.types)
    IN Blake3_finalize(TypeLib_id_loop(Blake3_new_keyed(LIB_ID_TAG),
                                       IF values = << >> THEN << >> ELSE << Head(values) >>))

\* TypeLib::id
TypeLib_id(self) ==
    Blake3_finalize(TypeLib_id_loop(Blake3_new_keyed(LIB_ID_TAG), TypeMap_values(self.types)))

(***************************************************************************)
(* CountingWriter and StrictWriter (encoding/write.rs).                    *)
(***************************************************************************)
\* usize. Its width is scaled down from 64 bits: isize::MAX stays above the
\* 2^24 limits of the library and sums of a few values stay computable.
USIZE_BITS == 29
USIZE_MAX == 2^USIZE_BITS - 1
ISIZE_MAX == 2^(USIZE_BITS - 1) - 1

\* a + b on usize: a build with overflow checks panics when the sum does not
\* fit, a build without them wraps.
Usize_add(a, b, wrapping) ==
    IF a + b <= USIZE_MAX THEN Ok(a + b)
    ELSE IF wrapping THEN Ok((a + b) % (USIZE_MAX + 1))
    ELSE Panic("attempt to add with overflow")

\* A buffer &[u8]: len bytes, the bytes first .. first+len-1 of what the
\* caller is writing.
Slice(first, len) == [first |-> first, len |-> len]

\* An inner writer W of which nothing is known but io::Write: a write call
\* takes the first n <= buf.len() bytes and returns Ok(n), or fails. Its state
\* is the number of calls it got and of bytes it reported as written.
Inner_new == [calls |-> 0, taken |-> 0]
Inner_write(writer, buf, outcome) ==
    [ writer |-> [ calls |-> writer.calls + 1,
                   taken |-> writer.taken + (IF outcome.st = "ok" THEN outcome.val ELSE 0) ],
      res |-> outcome ]

\* impl io::Write for Vec<u8>: the whole buffer is appended. A vector is the
\* sequence of the slices it was given.
Vec_new == [slices |-> << >>, len |-> 0]
Vec_len(vec) == vec.len
Vec_write(vec, buf) ==
    [ writer |-> [ slices |-> IF buf.len = 0 THEN vec.slices ELSE Append(vec.slices, buf),
                   len |-> vec.len + buf.len ],
      res |-> Ok(buf.len) ]

\* amplify::WriteCounter: counts the bytes and keeps none.
WriteCounter_default == [count |-> 0]
WriteCounter_write(counter, buf) ==
    [ writer |-> [count |-> counter.count + buf.len], res |-> Ok(buf.len) ]

\* impl From<W> for CountingWriter<W>
CountingWriter_from(writer) == [count |-> 0, limit |-> USIZE_MAX, writer |-> writer]
\* CountingWriter::with
CountingWriter_with(limit, writer) == [count |-> 0, limit |-> limit, writer |-> writer]
\* CountingWriter::unbox
CountingWriter_unbox(self) == self.writer

\* impl io::Write for CountingWriter<W>, fn write. inner is what
\* self.writer.write(buf) does: the inner writer after the call and what the
\* call returned; it is used only when the buffer passes the limit.
CountingWriter_write(self, buf, inner, wrapping) ==
    LET sum == Usize_add(self.count, buf.len, wrapping)
    IN IF sum.st = "panic" THEN [ self |-> self, res |-> sum ]
       ELSE IF sum.val > self.limit
       THEN [ self |-> self, res |-> Err("InvalidInput") ]
       ELSE IF inner.res.st = "err"
       THEN [ self |-> [ self EXCEPT !.writer = inner.writer ], res |-> inner.res ]
       ELSE LET count == Usize_add(self.count, inner.res.val, wrapping)
            IN IF count.st = "panic"
               THEN [ self |-> [ self EXCEPT !.writer = inner.writer ], res |-> count ]
               ELSE [ self |-> [ self EXCEPT !.writer = inner.writer, !.count = count.val ],
                      res |-> inner.res ]

\* The write calls one writer gets.
MaxWrites == 3
\* The limits writers are made with, the lengths of the buffers they are
\* given, and what the inner writer may answer to a buffer of len bytes.
CwLimits == { 0, 3, USIZE_MAX }
BufLens == { 0, 1, 2, ISIZE_MAX }
InnerOutcomes(len) == { Ok(n) : n \in { 0, 1, len } \cap 0..len } \cup { Err("Other") }

(***************************************************************************)
(* Serialize (encoding/traits.rs).                                         *)
(***************************************************************************)
\* StrictWriter::in_memory, StrictWriter::counter, StrictWriter::unbox
StrictWriter_in_memory(limit) == CountingWriter_with(limit, Vec_new)
StrictWriter_counter == CountingWriter_from(WriteCounter_default)
StrictWriter_unbox(self) == CountingWriter_unbox(self)

\* self.writer.write(buf) of the two inner writers of a StrictWriter.
StrictWriter_inner_write(writer, buf) ==
    IF "slices" \in DOMAIN writer THEN Vec_write(writer, buf) ELSE WriteCounter_write(writer, buf)

\* The encoding of a value: the buffers its encoder writes, one after the other.
RECURSIVE Value_slices(_, _)
Value_slices(lens, first) ==
    IF lens = << >> THEN << >>
    ELSE << Slice(first, Head(lens)) >> \o Value_slices(Tail(lens), first + Head(lens))
Value_encoding(value) == Value_slices(value, 0)
RECURSIVE Value_len(_)
Value_len(value) == IF value = << >> THEN 0 ELSE Head(value) + Value_len(Tail(value))

\* StrictEncode::strict_encode: the buffers of the value are written in order,
\* and the first write that fails ends the encoding with its error.
RECURSIVE StrictEncode_write_all(_, _, _)
StrictEncode_write_all(slices, writer, wrapping) ==
    IF slices = << >> THEN [ writer |-> writer, res |-> Ok("()") ]
    ELSE LET buf == Head(slices)
             call == CountingWriter_write(writer, buf,
                                          StrictWriter_inner_write(writer.writer, buf), wrapping)
         IN IF call.res.st # "ok"
            THEN [ writer |-> call.self, res |-> call.res ]
            ELSE StrictEncode_write_all(Tail(slices), call.self, wrapping)
StrictEncode_strict_encode(value, writer, wrapping) ==
    StrictEncode_write_all(Value_encoding(value), writer, wrapping)

\* Confined::<Vec<u8>, MIN, MAX>::try_from
Confined_vec_try_from(vec, min_len, max_len) ==
    IF Vec_len(vec) < min_len
    THEN Err([error |-> "Undersize", len |-> Vec_len(vec), bound |-> min_len])
    ELSE IF Vec_len(vec) > max_len
         THEN Err([error |-> "Oversize", len |-> Vec_len(vec), bound |-> max_len])
         ELSE Ok(vec)

\* A strict_serialized_len whose counter has the limit of the TypeSystem armor.
Serialize_strict_serialized_len_limited(value, wrapping) ==
    LET enc == StrictEncode_strict_encode(value,
                   CountingWriter_with(U24_MAX, WriteCounter_default), wrapping)
    IN IF enc.res.st # "ok" THEN enc.res
       ELSE Ok(StrictWriter_unbox(enc.writer).count)

\* Serialize::strict_serialized_len
Serialize_strict_serialized_len(value, wrapping) ==
    LET enc == StrictEncode_strict_encode(value, StrictWriter_counter, wrapping)
    IN IF enc.res.st # "ok" THEN enc.res
       ELSE Ok(StrictWriter_unbox(enc.writer).count)

\* A to_strict_serialized that goes on with what was written when the
\* encoding fails.
Serialize_to_strict_serialized_partial(value, max, wrapping) ==
    LET enc == StrictEncode_strict_encode(value, StrictWriter_in_memory(max), wrapping)
    IN Confined_vec_try_from(StrictWriter_unbox(enc.writer), 0, max)

\* Serialize::to_strict_serialized::<MAX>
Serialize_to_strict_serialized(value, max, wrapping) ==
    LET enc == StrictEncode_strict_encode(value, StrictWriter_in_memory(max), wrapping)
    IN IF enc.res.st # "ok" THEN enc.res
       ELSE Confined_vec_try_from(StrictWriter_unbox(enc.writer), 0, max)

\* The values serialized: at most MaxChunks buffers each, of a few bytes or
\* of almost 2^24.
MaxChunks == 3
ChunkLens == { 1, 2, U24_MAX - 1 }
RECURSIVE SeqsUpTo(_, _)
SeqsUpTo(S, n) ==
    IF n = 0 THEN { << >> }
    ELSE LET shorter == SeqsUpTo(S, n - 1)
         IN shorter \cup { Append(q, x) : q \in shorter, x \in S }
SerValues == SeqsUpTo(ChunkLens, MaxChunks)
\* The MAX parameters: small ones and that of the TypeSystem armor, 0xFFFFFF.
SerMaxes == { 0, 3, U24_MAX }

(***************************************************************************)
(* Deserialize (encoding/traits.rs).                                       *)
(***************************************************************************)
\* StrictReader::with(limit, source): a reader over a cursor or a file, of
\* which the model keeps the bytes, the position and the bytes counted.
StrictReader_with(limit, data) == [data |-> data, pos |-> 0, count |-> 0, limit |-> limit]

\* Reading n bytes: refused beyond the limit of the reader, an error at the
\* end of the source, the bytes at the position otherwise.
StrictReader_read(reader, n) ==
    IF reader.count + n > reader.limit
    THEN [ reader |-> reader, res |-> Err("InvalidInput") ]
    ELSE IF reader.pos + n > Len(reader.data)
    THEN [ reader |-> reader, res |-> Err("UnexpectedEof") ]
    ELSE [ reader |-> [ reader EXCEPT !.pos = @ + n, !.count = @ + n ],
           res |-> Ok(SubSeq(reader.data, reader.pos + 1, reader.pos + n)) ]

\* StrictDecode::strict_decode of the type decoded here: one byte with the
\* length of the value, then the bytes of the value.
StrictDecode_strict_decode(reader) ==
    LET len == StrictReader_read(reader, 1)
    IN IF len.res.st = "err" THEN len
       ELSE StrictReader_read(len.reader, len.res.val[1])

\* io::Cursor::fill_buf: the bytes from the position on.
Cursor_fill_buf(cursor) == SubSeq(cursor.data, cursor.pos + 1, Len(cursor.data))
\* File::stream_position and File::seek(SeekFrom::End(0))
File_stream_position(file) == file.pos
File_seek_end(file) == Len(file.data)

\* A from_strict_serialized that does not look at what is left.
Deserialize_from_strict_serialized_unchecked(ast_data, max) ==
    StrictDecode_strict_decode(StrictReader_with(max, ast_data)).res

\* Deserialize::from_strict_serialized::<MAX>
Deserialize_from_strict_serialized(ast_data, max) ==
    LET me == StrictDecode_strict_decode(StrictReader_with(max, ast_data))
    IN IF me.res.st = "err" THEN me.res
       ELSE IF Cursor_fill_buf(me.reader) # << >>
       THEN Err("DataNotEntirelyConsumed")
       ELSE me.res

\* Deserialize::strict_deserialize_from_file::<MAX>
Deserialize_strict_deserialize_from_file(data, canOpen, max) ==
    IF ~canOpen THEN Err("NotFound")
    ELSE LET me == StrictDecode_strict_decode(StrictReader_with(max, data))
         IN IF me.res.st = "err" THEN me.res
            ELSE IF File_stream_position(me.reader) # File_seek_end(me.reader)
            THEN Err("DataNotEntirelyConsumed")
            ELSE me.res

\* The inputs: byte strings of at most MaxDataLen bytes, each byte at most
\* MaxByte.
MaxDataLen == 3
MaxByte == 2
DsInputs == SeqsUpTo(0..MaxByte, MaxDataLen)
DsMaxes == { 2, 8 }

(***************************************************************************)
(* The armored text of a TypeSystem (typesys/type_sys.rs, UpperHex).       *)
(***************************************************************************)
\* The width of a line of the body.
ARMOR_WIDTH == 76

\* base64 STANDARD engine.encode: four characters for every three bytes, the
\* last group padded. A character is named by its place in the encoding.
Base64_encode(vec) == [ i \in 1..(4 * ((Vec_len(vec) + 2) \div 3)) |-> ToString(i) ]

\* The loop of UpperHex::fmt: a line for every 76 characters while at least 76
\* are left, then a line with what is left.
RECURSIVE TypeSystem_armor_body(_)
TypeSystem_armor_body(data) ==
    IF Len(data) >= ARMOR_WIDTH
    THEN << SubSeq(data, 1, ARMOR_WIDTH) >>
         \o TypeSystem_armor_body(SubSeq(data, ARMOR_WIDTH + 1, Len(data)))
    ELSE << data >>

\* The lines before and after the body; a line is the sequence of the pieces
\* of text it is made of.
ArmorBegin == << "----- BEGIN STRICT TYPE SYSTEM -----" >>
ArmorId == << "Id: ", "{id}" >>
ArmorChecksum == << "Checksum: ", "{id.to_baid58().mnemonic()}" >>
ArmorEnd == << "----- END STRICT TYPE SYSTEM -----" >>

\* impl fmt::UpperHex for TypeSystem, fn fmt: the lines written, or the panic
\* of expect("in-memory").
TypeSystem_fmt_upper_hex(value, wrapping) ==
    LET data == Serialize_to_strict_serialized(value, U24_MAX, wrapping)
    IN IF data.st # "ok" THEN Panic("in-memory")
       ELSE Ok(<< ArmorBegin, ArmorId, ArmorChecksum, << >> >>
               \o TypeSystem_armor_body(Base64_encode(data.val))
               \o << << >>, ArmorEnd >>)

\* The systems armored: serialized in one buffer of 3 to MaxSerLen bytes, or
\* in two buffers of 2^24 bytes together.
MaxSerLen == 114
ArmValues == { << n >> : n \in 3..MaxSerLen } \cup { << U24_MAX - 1, 2 >> }

(***************************************************************************)
(* StructWriter (encoding/write.rs).                                       *)
(***************************************************************************)
\* TypedWrite::write_struct of StrictWriter: the writer moves into the
\* StructWriter it returns.
StrictWriter_write_struct(self, ns, name) == [ ns |-> ns, name |-> name, writer |-> self ]

\* A write_field_ord that places the value by its ord: before the fields
\* written so far when the ord is 0, after them otherwise.
StructWriter_write_field_ord_placed(self, name, ord, value, wrapping) ==
    LET enc == StrictEncode_strict_encode(value, self.writer, wrapping)
        old == self.writer.writer.slices
        all == enc.writer.writer.slices
        new == SubSeq(all, Len(old) + 1, Len(all))
    IN IF enc.res.st # "ok" THEN enc.res
       ELSE Ok([ self EXCEPT !.writer = [ enc.writer EXCEPT !.writer.slices =
                                             IF ord = 0 THEN new \o old ELSE all ] ])

\* WriteStruct::write_field: `self.writer = value.strict_encode(self.writer)?`,
\* then Ok(self); an error of the encoding is returned and self is dropped.
StructWriter_write_field(self, name, value, wrapping) ==
    LET enc == StrictEncode_strict_encode(value, self.writer, wrapping)
    IN IF enc.res.st # "ok" THEN enc.res
       ELSE Ok([ self EXCEPT !.writer = enc.writer ])

\* WriteStruct::write_field_ord: the same body, with one more unused argument.
StructWriter_write_field_ord(self, name, ord, value, wrapping) ==
    LET enc == StrictEncode_strict_encode(value, self.writer, wrapping)
    IN IF enc.res.st # "ok" THEN enc.res
       ELSE Ok([ self EXCEPT !.writer = enc.writer ])

\* WriteStruct::complete: P::from(self.writer), with P the StrictWriter.
StructWriter_complete(self) == self.writer

\* The calls one StructWriter gets, the limits of its writer, the values of
\* the fields (the buffers their encoders write), their names and ords.
MaxCalls == 3
SwLimits == { 4, USIZE_MAX }
SwValues == { << 1 >>, << 1, 2 >> }
SwNames == { "a", "b" }
SwOrds == { 0, 1 }

IdleCls == cls = NoCls /\ byte = NoByte /\ clsRes = Unset
IdleTy ==
    /\ ty = [tag |-> "-"]
    /\ keyRes = Unset /\ optRes = Unset /\ cmpRes = Unset /\ fmtRes = Unset
    /\ tyCls = Unset /\ keyCls = Unset
IdleConf == coll = [kind |-> "-"] /\ confRes = Unset /\ innerRes = Unset
IdleSys == sys = [map |-> << >>, rest |-> 0] /\ insRes = Unset /\ insRefused = None /\ insOk = {}
IdleLib ==
    /\ libA = TypeLib_empty /\ libB = TypeLib_empty
    /\ lastA = Unset /\ lastB = Unset /\ idA = Unset /\ idB = Unset
IdleCw == cw = [count |-> 0] /\ cwWrap = FALSE /\ cwBuf = None /\ cwRes = Unset
IdleSer ==
    /\ serVal = << >> /\ serMax = 0 /\ serWrap = FALSE
    /\ serRes = Unset /\ lenRes = Unset
IdleDe ==
    /\ dsData = << >> /\ dsMax = 0 /\ dsOpen = FALSE
    /\ memRes = Unset /\ fileRes = Unset
IdleArm == armVal = << >> /\ armWrap = FALSE /\ armRes = Unset
IdleSw == sw = [st |-> "-"] /\ swWrap = FALSE /\ swLog = << >> /\ swRes = Unset

\* The initial state of one domain leaves every other domain unused.
OnlyCls == IdleTy /\ IdleConf /\ IdleSys /\ IdleLib /\ IdleCw /\ IdleSer /\ IdleDe /\ IdleArm /\ IdleSw
OnlyTy == IdleCls /\ IdleConf /\ IdleSys /\ IdleLib /\ IdleCw /\ IdleSer /\ IdleDe /\ IdleArm /\ IdleSw
OnlyConf == IdleCls /\ IdleTy /\ IdleSys /\ IdleLib /\ IdleCw /\ IdleSer /\ IdleDe /\ IdleArm /\ IdleSw
OnlySys == IdleCls /\ IdleTy /\ IdleConf /\ IdleLib /\ IdleCw /\ IdleSer /\ IdleDe /\ IdleArm /\ IdleSw
OnlyLib == IdleCls /\ IdleTy /\ IdleConf /\ IdleSys /\ IdleCw /\ IdleSer /\ IdleDe /\ IdleArm /\ IdleSw
OnlyCw == IdleCls /\ IdleTy /\ IdleConf /\ IdleSys /\ IdleLib /\ IdleSer /\ IdleDe /\ IdleArm /\ IdleSw
OnlySer == IdleCls /\ IdleTy /\ IdleConf /\ IdleSys /\ IdleLib /\ IdleCw /\ IdleDe /\ IdleArm /\ IdleSw
OnlyDe == IdleCls /\ IdleTy /\ IdleConf /\ IdleSys /\ IdleLib /\ IdleCw /\ IdleSer /\ IdleArm /\ IdleSw
OnlyArm == IdleCls /\ IdleTy /\ IdleConf /\ IdleSys /\ IdleLib /\ IdleCw /\ IdleSer /\ IdleDe /\ IdleSw
OnlySw == IdleCls /\ IdleTy /\ IdleConf /\ IdleSys /\ IdleLib /\ IdleCw /\ IdleSer /\ IdleDe /\ IdleArm

InitCls ==
    /\ \/ cls \in ClsValues /\ byte = NoByte
       \/ cls = NoCls /\ byte \in 0..U8_MAX
    /\ clsRes = Unset
    /\ OnlyCls

\* `cls as u8`
ClsIntoU8 ==
    /\ cls # NoCls
    /\ byte = NoByte
    /\ byte' = Cls_into_u8(cls)
    /\ UNCHANGED <<cls, clsRes>>
    /\ UNCHANGED othersCls

\* Cls::try_from(byte)
ClsTryFrom ==
    /\ byte # NoByte
    /\ clsRes = Unset
    /\ clsRes' = Cls_try_from(byte)
    /\ UNCHANGED <<cls, byte>>
    /\ UNCHANGED othersCls

NextCls == ClsIntoU8 \/ ClsTryFrom

SpecCls == InitCls /\ [][NextCls]_vars

(***************************************************************************)
(* The Ty domain: one Ty value and the pure functions applied to it.       *)
(***************************************************************************)
InitTy ==
    /\ ty \in TyInputs
    /\ keyRes = Unset /\ optRes = Unset /\ cmpRes = Unset /\ fmtRes = Unset
    /\ tyCls = Unset /\ keyCls = Unset
    /\ OnlyTy

\* ty.try_to_key()
TyTryToKey ==
    /\ keyRes = Unset
    /\ keyRes' = Ty_try_to_key(ty)
    /\ UNCHANGED <<ty, optRes, cmpRes, fmtRes, tyCls, keyCls>>
    /\ UNCHANGED othersTy

\* ty.is_option()
TyIsOption ==
    /\ optRes = Unset
    /\ optRes' = Ok(Ty_is_option(ty))
    /\ UNCHANGED <<ty, keyRes, cmpRes, fmtRes, tyCls, keyCls>>
    /\ UNCHANGED othersTy

\* ty.is_compound()
TyIsCompound ==
    /\ cmpRes = Unset
    /\ cmpRes' = Ok(Ty_is_compound(ty))
    /\ UNCHANGED <<ty, keyRes, optRes, fmtRes, tyCls, keyCls>>
    /\ UNCHANGED othersTy

\* format!("{}", ty)
TyDisplay ==
    /\ fmtRes = Unset
    /\ fmtRes' = Ty_fmt(ty)
    /\ UNCHANGED <<ty, keyRes, optRes, cmpRes, tyCls, keyCls>>
    /\ UNCHANGED othersTy

\* ty.cls()
TyCls ==
    /\ tyCls = Unset
    /\ tyCls' = Ok(Ty_cls(ty))
    /\ UNCHANGED <<ty, keyRes, optRes, cmpRes, fmtRes, keyCls>>
    /\ UNCHANGED othersTy

\* key.cls(), for the key try_to_key returned
KeyCls ==
    /\ keyRes.st = "ok"
    /\ keyCls = Unset
    /\ keyCls' = Ok(KeyTy_cls(keyRes.val))
    /\ UNCHANGED <<ty, keyRes, optRes, cmpRes, fmtRes, tyCls>>
    /\ UNCHANGED othersTy

NextTy == TyTryToKey \/ TyIsOption \/ TyIsCompound \/ TyDisplay \/ TyCls \/ KeyCls

SpecTy == InitTy /\ [][NextTy]_vars

(***************************************************************************)
(* Properties of the Ty domain.                                            *)
(***************************************************************************)
IsArrayOrList == ty.tag \in {"Array", "List"}
ElemIsByte == IsArrayOrList /\ Ref_is_byte(ty.ref)
ElemIsUnicode == IsArrayOrList /\ Ref_is_unicode_char(ty.ref)
ElemIsAscii == IsArrayOrList /\ Ref_is_ascii_char(ty.ref)

\* C3: try_to_key is total (it returns Ok or Err, never anything else) and its
\* result is the narrowing table read first-match-wins: Primitive(p) gives
\* KeyTy::Primitive(p); Enum(v) gives KeyTy::Enum(v); a byte Array gives
\* KeyTy::Array(len); a byte List gives KeyTy::Bytes(s); a unicode Array that
\* is no byte array gives UnicodeStr(fixed(len)); a unicode List that is no
\* byte list gives UnicodeStr(s); an ascii List that is neither gives
\* AsciiStr(s); UnicodeChar gives UnicodeStr(ONE).
C3_NarrowingTable ==
    keyRes # Unset =>
        /\ keyRes.st \in {"ok", "err"}
        /\ ty.tag = "Primitive" => keyRes = Ok(KeyPrimitive(ty.code))
        /\ ty.tag = "Enum" => keyRes = Ok(KeyEnum(ty.variants))
        /\ ty.tag = "Array" /\ ElemIsByte => keyRes = Ok(KeyArray(ty.len))
        /\ ty.tag = "List" /\ ElemIsByte => keyRes = Ok(KeyBytes(ty.sizing))
        /\ ty.tag = "Array" /\ ~ElemIsByte /\ ElemIsUnicode
              => keyRes = Ok(KeyUnicodeStr([min |-> ty.len, max |-> ty.len]))
        /\ ty.tag = "List" /\ ~ElemIsByte /\ ElemIsUnicode
              => keyRes = Ok(KeyUnicodeStr(ty.sizing))
        /\ ty.tag = "List" /\ ~ElemIsByte /\ ~ElemIsUnicode /\ ElemIsAscii
              => keyRes = Ok(KeyAsciiStr(ty.sizing))
        /\ ty.tag = "UnicodeChar" => keyRes = Ok(KeyUnicodeStr([min |-> 1, max |-> 1]))

\* C3 witness: an array whose element answers both is_byte and
\* is_unicode_char was narrowed by the first matching row, the byte row.
C3_Witness ==
    /\ ty.tag = "Array" /\ ElemIsByte /\ ElemIsUnicode
    /\ keyRes = Ok(KeyArray(ty.len))

\* C4: try_to_key returns Err carrying the input unchanged, and never Ok, for
\* every Union, Struct, Tuple, Set and Map, for every Array whose element is
\* neither a byte nor a unicode char (an array of ascii chars among them), and
\* for every List whose element is none of byte, unicode char, ascii char.
C4_NarrowingRejects ==
    keyRes # Unset =>
        /\ ty.tag \in {"Union", "Struct", "Tuple", "Set", "Map"} => keyRes = Err(ty)
        /\ ty.tag = "Array" /\ ~ElemIsByte /\ ~ElemIsUnicode => keyRes = Err(ty)
        /\ ty.tag = "List" /\ ~ElemIsByte /\ ~ElemIsUnicode /\ ~ElemIsAscii
              => keyRes = Err(ty)

\* C4 witness: an array of ascii chars was rejected with itself as the error.
C4_Witness ==
    /\ ty.tag = "Array" /\ ElemIsAscii /\ ~ElemIsByte /\ ~ElemIsUnicode
    /\ keyRes = Err(ty)

\* C5 as claimed: try_to_key returns Ok(k) with k.cls() equal to the class of
\* the original type, or Err with the original type.
C5_ClsPreserved ==
    /\ keyRes.st = "err" => keyRes.err = ty
    /\ keyCls # Unset /\ tyCls # Unset => keyCls.val = tyCls.val

\* The class the amended C5 expects of the narrowed key.
C5_ExpectedCls ==
    IF IsArrayOrList /\ ~ElemIsByte /\ ElemIsUnicode THEN "Unicode"
    ELSE IF ty.tag = "List" /\ ~ElemIsByte /\ ~ElemIsUnicode /\ ElemIsAscii THEN "AsciiStr"
    ELSE tyCls.val

\* C5 amended: try_to_key returns Err with the original type, or Ok(k) where
\* k.cls() equals t.cls() for a Primitive, an Enum, a UnicodeChar and an Array
\* or List of bytes, is Cls::Unicode for an Array or List of unicode chars and
\* is Cls::AsciiStr for a List of ascii chars.
C5_ClsOfNarrowed ==
    /\ keyRes # Unset => keyRes.st \in {"ok", "err"}
    /\ keyRes.st = "err" => keyRes.err = ty
    /\ keyCls # Unset /\ tyCls # Unset => keyCls.val = C5_ExpectedCls

\* C5 witness: a list of unicode chars narrowed to a key of class Unicode,
\* while the list itself is of class List.
C5_Witness ==
    /\ ty.tag = "List" /\ ElemIsUnicode /\ ~ElemIsByte
    /\ tyCls = Ok("List") /\ keyCls = Ok("Unicode")

\* The members of the union or enum under inspection, as a set.
Members == { ty.variants[i] : i \in 1..Len(ty.variants) }

\* C6: is_option is true exactly for a Union with two variants of which the
\* one at index 0 of the sorted order (the one with the smaller tag) is named
\* "none" and the one at index 1 (the larger tag) is named "some"; it is false
\* for every other type.
C6_IsOption ==
    optRes # Unset =>
        optRes.val =
            (/\ ty.tag = "Union"
             /\ Cardinality(Members) = 2
             /\ \E a \in Members : \E b \in Members :
                    a.tag < b.tag /\ a.name = "none" /\ b.name = "some")

\* C6 witness: is_option answered true for a union.
C6_Witness == ty.tag = "Union" /\ optRes = Ok(TRUE)

\* C7: a union whose two variants are named "none" and "some" reports
\* is_option() == true whatever their tags are, and a union of "none" and
\* "maybe" reports false.
C7_OptionAnyTags ==
    optRes # Unset /\ ty.tag = "Union" /\ Cardinality(Members) = 2 =>
        /\ { m.name : m \in Members } = {"none", "some"} => optRes.val = TRUE
        /\ { m.name : m \in Members } = {"none", "maybe"} => optRes.val = FALSE

\* The reference a union maps its variant named "some" to.
SomeRef == (CHOOSE m \in Members : m.name = "some").ty

\* C8: for every union is_option recognises, Display does not panic and the
\* text is that of the type of the variant named "some" followed by "?".
C8_OptionDisplay ==
    fmtRes # Unset /\ Ty_is_option(ty) => fmtRes = Ok(Ref_fmt(SomeRef) \o << "?" >>)

\* C10: is_compound is true for a Struct of more than one field, for every
\* Enum and for every Union is_option does not recognise; it is false for a
\* Struct of one field, for an optional Union and for every Primitive,
\* UnicodeChar, Tuple, Array, List, Set and Map.
C10_IsCompound ==
    cmpRes # Unset =>
        /\ ty.tag = "Struct" => cmpRes.val = (Len(ty.fields) > 1)
        /\ ty.tag = "Enum" => cmpRes.val = TRUE
        /\ ty.tag = "Union" => cmpRes.val = ~Ty_is_option(ty)
        /\ ty.tag \in {"Primitive", "UnicodeChar", "Tuple", "Array", "List", "Set", "Map"}
              => cmpRes.val = FALSE

\* C10 witness: a struct of one field was found not compound.
C10_Witness == ty.tag = "Struct" /\ Len(ty.fields) = 1 /\ cmpRes = Ok(FALSE)

\* The references a type holds.
TyRefs(t) ==
    CASE t.tag \in {"Array", "List", "Set", "Map"} -> { t.ref }
      [] t.tag = "Tuple" -> { t.fields[i] : i \in 1..Len(t.fields) }
      [] t.tag = "Struct" -> { t.fields[i].ty : i \in 1..Len(t.fields) }
      [] t.tag = "Union" -> { t.variants[i].ty : i \in 1..Len(t.variants) }
      [] OTHER -> {}

\* C22: is_byte, is_unicode_char and is_ascii_char are false of every SemId
\* and every KeyTy reference; so for a Ty<SemId> and for a Ty<KeyTy>
\* try_to_key returns Err for every Array and every List, and returns Ok for
\* a Primitive, an Enum and a UnicodeChar and for nothing else.
C22_BuiltinRefsNeverNarrow ==
    /\ \A r \in SemIdRefs \cup KeyTyRefs :
           ~Ref_is_byte(r) /\ ~Ref_is_unicode_char(r) /\ ~Ref_is_ascii_char(r)
    /\ \A kind \in {"SemId", "KeyTy"} :
           (keyRes # Unset /\ \A r \in TyRefs(ty) : r.kind = kind)
           => /\ IsArrayOrList => keyRes = Err(ty)
              /\ keyRes.st = "ok" <=> ty.tag \in {"Primitive", "Enum", "UnicodeChar"}

\* C22 witness: an array whose element reference is the KeyTy of the byte
\* primitive was not narrowed.
C22_Witness ==
    /\ ty.tag = "Array" /\ ty.ref = KeyTyRef(KeyPrimitive("Byte"))
    /\ keyRes = Err(ty)

(***************************************************************************)
(* The Confined domain: one collection, try_from and into_inner.           *)
(***************************************************************************)
InitConf ==
    /\ coll \in ConfInputs
    /\ confRes = Unset /\ innerRes = Unset
    /\ OnlyConf

ConfTried(kind, res) ==
    /\ coll.kind = kind
    /\ confRes = Unset
    /\ confRes' = res
    /\ UNCHANGED <<coll, innerRes>>
    /\ UNCHANGED othersConf

ConfUnwrapped(kind, inner) ==
    /\ coll.kind = kind
    /\ innerRes = Unset
    /\ innerRes' = Ok(inner)
    /\ UNCHANGED <<coll, confRes>>
    /\ UNCHANGED othersConf

NamedFieldsTryFrom == ConfTried("NamedFields", NamedFields_try_from(coll.items))
UnnamedFieldsTryFrom == ConfTried("UnnamedFields", UnnamedFields_try_from(coll.items))
UnionVariantsTryFrom == ConfTried("UnionVariants", UnionVariants_try_from(coll.items))
EnumVariantsTryFrom == ConfTried("EnumVariants", EnumVariants_try_from(coll.items))

NamedFieldsIntoInner ==
    confRes.st = "ok" /\ ConfUnwrapped("NamedFields", NamedFields_into_inner(confRes.val))
UnnamedFieldsIntoInner ==
    confRes.st = "ok" /\ ConfUnwrapped("UnnamedFields", UnnamedFields_into_inner(confRes.val))
UnionVariantsIntoInner ==
    confRes.st = "ok" /\ ConfUnwrapped("UnionVariants", UnionVariants_into_inner(confRes.val))
EnumVariantsIntoInner ==
    confRes.st = "ok" /\ ConfUnwrapped("EnumVariants", EnumVariants_into_inner(confRes.val))

NextConf ==
    \/ NamedFieldsTryFrom
    \/ UnnamedFieldsTryFrom
    \/ UnionVariantsTryFrom
    \/ EnumVariantsTryFrom
    \/ NamedFieldsIntoInner
    \/ UnnamedFieldsIntoInner
    \/ UnionVariantsIntoInner
    \/ EnumVariantsIntoInner

SpecConf == InitConf /\ [][NextConf]_vars

\* C2: for each of the four collections try_from fails with a confinement
\* error when the collection has 0 or more than 255 members and succeeds when
\* it has 1..=255, whatever the members are, and into_inner of the result is
\* the collection that was handed in (same members, same order).
C2_ConfinedBounds ==
    /\ confRes # Unset =>
          /\ Len(coll.items) = 0 \/ Len(coll.items) > 255
                => confRes.st = "err" /\ confRes.err.error \in {"Undersize", "Oversize"}
          /\ Len(coll.items) \in 1..255 => confRes.st = "ok"
    /\ innerRes # Unset => innerRes = Ok(coll.items)

\* C2 witness: a map of 255 variants was confined and unwrapped again.
C2_Witness ==
    /\ coll.kind = "UnionVariants" /\ Len(coll.items) = 255
    /\ confRes.st = "ok" /\ innerRes = Ok(coll.items)

(***************************************************************************)
(* The TypeSystem domain: a system grown by insert_unchecked.              *)
(***************************************************************************)
InitSys ==
    /\ sys = TypeSystem_new
    /\ insRes = Unset
    /\ insRefused = None
    /\ insOk = {}
    /\ OnlySys

\* sys.insert_unchecked(fqid, t)
InsertUnchecked ==
    \E fqid \in Fqids : \E t \in SysTys :
        LET call == TypeSystem_insert_unchecked(sys, fqid, t)
        IN /\ sys' = call.self
           /\ insRes' = call.res
           /\ insRefused' = IF call.res.st = "err" THEN Some(fqid) ELSE None
           /\ insOk' = IF call.res.st = "ok" THEN insOk \cup {fqid} ELSE insOk
           /\ UNCHANGED othersSys

NextSys == InsertUnchecked

SpecSys == InitSys /\ [][NextSys]_vars

\* The same calls on a system that starts nearly full.
InitSysNearFull ==
    /\ sys = [TypeSystem_new EXCEPT !.rest = SysRest]
    /\ insRes = Unset
    /\ insRefused = None
    /\ insOk = {}
    /\ OnlySys

SpecSysNearFull == InitSysNearFull /\ [][NextSys]_vars

\* The semantic ids a Ty<SemId> refers to.
RefIds(t) ==
    CASE t.tag \in {"Array", "List", "Set", "Map"} -> { t.ref.id }
      [] t.tag = "Tuple" -> { t.fields[i].id : i \in 1..Len(t.fields) }
      [] t.tag = "Struct" -> { t.fields[i].ty.id : i \in 1..Len(t.fields) }
      [] t.tag = "Union" -> { t.variants[i].ty.id : i \in 1..Len(t.variants) }
      [] OTHER -> {}

\* C1: after any sequence of insert_unchecked calls the system is complete:
\* every SemId a stored definition refers to is the id of a key of the system.
C1_Complete ==
    \A k \in DOMAIN sys.map : \A id \in RefIds(sys.map[k]) : \E k2 \in DOMAIN sys.map : k2.id = id

\* C13: an entry is never patched in place: no call changes or removes the
\* definition a TypeFqid is already bound to, a second insert_unchecked with
\* the same TypeFqid and another Ty included.
C13_NeverPatched ==
    [][\A k \in DOMAIN sys.map : k \in DOMAIN sys'.map /\ sys'.map[k] = sys.map[k]]_vars

\* C14: a system never holds more than 2^24-1 entries, count_types() is the
\* number of distinct keys insert_unchecked returned Ok for (the entries the
\* system started with counted as inserted), and a call on a full system
\* returns Ok for no new key: for a new key it returns the confinement error
\* and leaves the map as it was.
C14_Capacity ==
    /\ [](/\ TypeSystem_count_types(sys) <= U24_MAX
          /\ TypeSystem_count_types(sys) = Cardinality(insOk) + sys.rest)
    /\ [][TypeSystem_count_types(sys) = U24_MAX
          => (/\ insOk' = insOk
              /\ (insRefused'.st = "some" /\ insRefused'.val \notin DOMAIN sys.map)
                 => (/\ insRes'.st = "err"
                     /\ insRes'.err.error = "Oversize"
                     /\ sys' = sys))]_vars

\* C14 witness: a new key was refused by a full system.
C14_Witness ==
    /\ TypeSystem_count_types(sys) = U24_MAX
    /\ insRes.st = "err"
    /\ insRefused.st = "some" /\ insRefused.val \notin DOMAIN sys.map

(***************************************************************************)
(* The TypeLib domain: two libraries, each grown by inserting named types, *)
(* and the id of each.                                                     *)
(***************************************************************************)
InitLib ==
    /\ libA = TypeLib_empty /\ libB = TypeLib_empty
    /\ lastA = Unset /\ lastB = Unset
    /\ idA = Unset /\ idB = Unset
    /\ OnlyLib

\* libA gets the type t under name
LibInsertA ==
    \E i \in 1..Len(TypeNames) : \E t \in LibTypes :
        LET call == TypeLib_insert(libA, TypeNames[i], t)
        IN /\ libA' = call.self
           /\ lastA' = [st |-> "done", name |-> TypeNames[i], old |-> call.old]
           /\ idA' = Unset
           /\ UNCHANGED <<libB, lastB, idB, othersLib>>

\* libB gets the type t under name
LibInsertB ==
    \E i \in 1..Len(TypeNames) : \E t \in LibTypes :
        LET call == TypeLib_insert(libB, TypeNames[i], t)
        IN /\ libB' = call.self
           /\ lastB' = [st |-> "done", name |-> TypeNames[i], old |-> call.old]
           /\ idB' = Unset
           /\ UNCHANGED <<libA, lastA, idA, othersLib>>

\* libA.id()
LibIdA ==
    /\ idA' = Ok(TypeLib_id(libA))
    /\ UNCHANGED <<libA, libB, lastA, lastB, idB, othersLib>>

\* libB.id()
LibIdB ==
    /\ idB' = Ok(TypeLib_id(libB))
    /\ UNCHANGED <<libA, libB, lastA, lastB, idA, othersLib>>

NextLib == LibInsertA \/ LibInsertB \/ LibIdA \/ LibIdB

SpecLib == InitLib /\ [][NextLib]_vars

\* The members of a library: its (name, type) pairs, in no order.
LibMembers(lib) == { lib.types[i] : i \in 1..Len(lib.types) }

\* The identity bytes of the types of a set of members, concatenated in the
\* ascending order of the members' names.
RECURSIVE IdBytesByName(_)
IdBytesByName(members) ==
    IF members = {} THEN << >>
    ELSE LET m == CHOOSE x \in members : \A y \in members : ~TypeName_lt(y.name, x.name)
         IN SemId_as_slice(m.ty.id) \o IdBytesByName(members \ {m})

\* C11: the id of a library is the hash keyed with LIB_ID_TAG of its members'
\* identity bytes in name order, whatever the order the members were inserted
\* in: two libraries with the same members have the same id, and so have two
\* calls on one library.
C11_IdOrderIndependent ==
    /\ idA # Unset => idA = Ok([key |-> LIB_ID_TAG, data |-> IdBytesByName(LibMembers(libA))])
    /\ idB # Unset => idB = Ok([key |-> LIB_ID_TAG, data |-> IdBytesByName(LibMembers(libB))])
    /\ (idA # Unset /\ idB # Unset /\ LibMembers(libA) = LibMembers(libB)) => idA = idB

\* C11 witness: two libraries with the same two members of different
\* identities, of which libA got "Alpha" last and libB got "Beta" last, both as
\* new names; the ids of both were computed.
C11_Witness ==
    /\ idA # Unset /\ idB # Unset
    /\ LibMembers(libA) = LibMembers(libB)
    /\ Len(libA.types) = 2 /\ libA.types[1].ty # libA.types[2].ty
    /\ lastA = [st |-> "done", name |-> "Alpha", old |-> None]
    /\ lastB = [st |-> "done", name |-> "Beta", old |-> None]

\* The type a library binds a name to.
LibLookup(lib, name) == (CHOOSE m \in LibMembers(lib) : m.name = name).ty
LibNames(lib) == { m.name : m \in LibMembers(lib) }

\* What C12 says of one step of one library.
LibReplaceStep(lib, libNext) ==
    \A n \in LibNames(lib) :
        (n \in LibNames(libNext) /\ LibLookup(libNext, n).id # LibLookup(lib, n).id)
        => /\ TypeLib_id(libNext) # TypeLib_id(lib)
           /\ LibNames(libNext) = LibNames(lib)
           /\ \A m \in LibNames(lib) \ {n} : LibLookup(libNext, m).id = LibLookup(lib, m).id

\* C12: a step that replaces the type of one member by a type of another
\* identity changes the id of the library and the identity of no other member.
C12_Compositional ==
    [][LibReplaceStep(libA, libA') /\ LibReplaceStep(libB, libB')]_vars

\* C12 witness: libA has two members and the last insert replaced the type of
\* its second member by a type of another identity.
C12_Witness ==
    /\ Len(libA.types) = 2
    /\ lastA.st = "done"
    /\ lastA.name = "Beta" /\ lastA.old.st = "some"
    /\ lastA.old.val.id # LibLookup(libA, "Beta").id

(***************************************************************************)
(* The CountingWriter domain: one writer over an arbitrary inner writer,   *)
(* and the write calls it gets.                                            *)
(***************************************************************************)
InitCw ==
    /\ \/ \E limit \in CwLimits : cw = CountingWriter_with(limit, Inner_new)
       \/ cw = CountingWriter_from(Inner_new)
    /\ cwWrap \in BOOLEAN
    /\ cwBuf = None
    /\ cwRes = Unset
    /\ OnlyCw

\* cw.write(buf)
CwWrite ==
    /\ cw.writer.calls < MaxWrites
    /\ \E len \in BufLens : \E outcome \in InnerOutcomes(len) :
        LET buf == Slice(0, len)
            call == CountingWriter_write(cw, buf, Inner_write(cw.writer, buf, outcome), cwWrap)
        IN /\ cw' = call.self
           /\ cwBuf' = Some(buf)
           /\ cwRes' = call.res
           /\ UNCHANGED <<cwWrap, othersCw>>

NextCw == CwWrite

SpecCw == InitCw /\ [][NextCw]_vars

\* C19: whatever write calls a CountingWriter got, count is at most its limit
\* and is the total of the bytes its inner writer reported as written.
C19_CountInvariant ==
    /\ cw.count <= cw.limit
    /\ cw.count = cw.writer.taken

\* C20: a write call whose buffer would take count above the limit returns
\* InvalidInput, hands nothing to the inner writer and leaves count alone;
\* any other write call, one that takes count to the limit exactly or one that
\* follows a refused call included, is handed to the inner writer.
C20_WriteAtLimit ==
    [][LET len == cwBuf'.val.len
       IN /\ cw.count + len > cw.limit
             => (cwRes' = Err("InvalidInput") /\ cw' = cw)
          /\ cw.count + len <= cw.limit
             => cw'.writer.calls = cw.writer.calls + 1]_vars

(***************************************************************************)
(* The Serialize domain: one value, serialized in memory and measured.     *)
(***************************************************************************)
InitSer ==
    /\ serVal \in SerValues
    /\ serMax \in SerMaxes
    /\ serWrap \in BOOLEAN
    /\ serRes = Unset
    /\ lenRes = Unset
    /\ OnlySer

\* value.to_strict_serialized::<MAX>()
SerToStrictSerialized ==
    /\ serRes' = Serialize_to_strict_serialized(serVal, serMax, serWrap)
    /\ UNCHANGED <<serVal, serMax, serWrap, lenRes, othersSer>>

\* value.strict_serialized_len()
SerStrictSerializedLen ==
    /\ lenRes' = Serialize_strict_serialized_len(serVal, serWrap)
    /\ UNCHANGED <<serVal, serMax, serWrap, serRes, othersSer>>

NextSer == SerToStrictSerialized \/ SerStrictSerializedLen

SpecSer == InitSer /\ [][NextSer]_vars

\* What the two sentences of C16 have in common: Ok carries at most MAX bytes
\* that are the whole encoding, and an encoding of more than MAX bytes is an
\* error.
C16_OkIsComplete ==
    /\ serRes.st = "ok"
       => /\ Vec_len(serRes.val) <= serMax
          /\ Vec_len(serRes.val) = Value_len(serVal)
          /\ serRes.val.slices = Value_encoding(serVal)
    /\ (serRes # Unset /\ Value_len(serVal) > serMax) => serRes.st = "err"

\* C16, as stated: to_strict_serialized::<MAX> returns Ok only with at most
\* MAX bytes that are the whole encoding and an error when the encoding is
\* longer; and with the MAX of the TypeSystem armor an encoding of at most
\* 2^24 bytes is serialized.
C16_SerializedWithin2pow24 ==
    /\ C16_OkIsComplete
    /\ (serRes # Unset /\ serMax = U24_MAX /\ Value_len(serVal) <= 2^24) => serRes.st = "ok"

\* C16, amended: the same, with an encoding of at most 2^24-1 bytes.
C16_SerializedBelow2pow24 ==
    /\ C16_OkIsComplete
    /\ (serRes # Unset /\ serMax = U24_MAX /\ Value_len(serVal) <= 2^24 - 1) => serRes.st = "ok"

\* C16 witness: an encoding of 2^24-1 bytes in several buffers was serialized
\* with MAX = 0xFFFFFF.
C16_Witness ==
    /\ serMax = U24_MAX /\ Value_len(serVal) = 2^24 - 1 /\ Len(serVal) > 1
    /\ serRes.st = "ok"

\* C17: strict_serialized_len returns the length of the encoding whatever it
\* is, so the length of the bytes to_strict_serialized returns when it returns
\* Ok, for any MAX.
C17_CountAgrees ==
    /\ lenRes # Unset => lenRes = Ok(Value_len(serVal))
    /\ (lenRes # Unset /\ serRes.st = "ok") => lenRes = Ok(Vec_len(serRes.val))

\* C17 witness: a value of several buffers was serialized and measured.
C17_Witness ==
    /\ Len(serVal) > 1 /\ serRes.st = "ok" /\ lenRes.st = "ok" /\ lenRes.val > 2

(***************************************************************************)
(* The Deserialize domain: the same bytes decoded from memory and from a   *)
(* file.                                                                   *)
(***************************************************************************)
InitDe ==
    /\ dsData \in DsInputs
    /\ dsMax \in DsMaxes
    /\ dsOpen \in BOOLEAN
    /\ memRes = Unset
    /\ fileRes = Unset
    /\ OnlyDe

\* Self::from_strict_serialized::<MAX>(ast_data), for data confined to MAX
DeFromStrictSerialized ==
    /\ Len(dsData) <= dsMax
    /\ memRes' = Deserialize_from_strict_serialized(dsData, dsMax)
    /\ UNCHANGED <<dsData, dsMax, dsOpen, fileRes, othersDe>>

\* Self::strict_deserialize_from_file::<MAX>(path)
DeStrictDeserializeFromFile ==
    /\ fileRes' = Deserialize_strict_deserialize_from_file(dsData, dsOpen, dsMax)
    /\ UNCHANGED <<dsData, dsMax, dsOpen, memRes, othersDe>>

NextDe == DeFromStrictSerialized \/ DeStrictDeserializeFromFile

SpecDe == InitDe /\ [][NextDe]_vars

\* What decoding the input does, and what C15 says a function returns for it.
Decoded == StrictDecode_strict_decode(StrictReader_with(dsMax, dsData))
C15_Rule(res) ==
    /\ res.st = "ok" => (Decoded.res.st = "ok" /\ Decoded.reader.pos = Len(dsData))
    /\ (Decoded.res.st = "ok" /\ Decoded.reader.pos = Len(dsData)) => res = Decoded.res
    /\ (Decoded.res.st = "ok" /\ Decoded.reader.pos < Len(dsData))
       => res = Err("DataNotEntirelyConsumed")
    /\ Decoded.res.st = "err" => res = Decoded.res

\* C15: from_strict_serialized returns Ok(value) only when decoding succeeded
\* and consumed every byte, DataNotEntirelyConsumed when it succeeded and left
\* bytes, and the decode error when it failed; strict_deserialize_from_file
\* does the same with the bytes of a file it could open.
C15_WholeInputConsumed ==
    /\ memRes # Unset => C15_Rule(memRes)
    /\ (fileRes # Unset /\ dsOpen) => C15_Rule(fileRes)
    /\ fileRes.st = "ok" => dsOpen

\* C15 witness: a value of one byte followed by one more byte, decoded from
\* memory and from a file.
C15_Witness ==
    /\ Len(dsData) = 3 /\ dsData[1] = 1
    /\ memRes = Err("DataNotEntirelyConsumed")
    /\ fileRes = Err("DataNotEntirelyConsumed")

(***************************************************************************)
(* The Armor domain: one type system written in its armored form.          *)
(***************************************************************************)
InitArm ==
    /\ armVal \in ArmValues
    /\ armWrap \in BOOLEAN
    /\ armRes = Unset
    /\ OnlyArm

\* write!(f, "{:X}", sys)
ArmFmtUpperHex ==
    /\ armRes' = TypeSystem_fmt_upper_hex(armVal, armWrap)
    /\ UNCHANGED <<armVal, armWrap, othersArm>>

NextArm == ArmFmtUpperHex

SpecArm == InitArm /\ [][NextArm]_vars

\* The lines of a body, one after the other.
RECURSIVE Flatten(_)
Flatten(lines) == IF lines = << >> THEN << >> ELSE Head(lines) \o Flatten(Tail(lines))

\* C18: the armored text is the BEGIN line, the Id line, the Checksum line, an
\* empty line, the body, an empty line and the END line; the body lines have
\* 76 characters each but the last, which has 1 to 76, and together they are
\* the base64 encoding of the serialized system.
C18_ArmorLayout ==
    armRes.st = "ok" =>
        LET out == armRes.val
            n == Len(out)
            body == SubSeq(out, 5, n - 2)
            data == Serialize_to_strict_serialized(armVal, U24_MAX, armWrap).val
        IN /\ n >= 7
           /\ out[1] = ArmorBegin
           /\ out[2][1] = "Id: "
           /\ out[3][1] = "Checksum: "
           /\ out[4] = << >>
           /\ out[n - 1] = << >>
           /\ out[n] = ArmorEnd
           /\ \A i \in 1..Len(body) : Len(body[i]) <= ARMOR_WIDTH
           /\ \A i \in 1..(Len(body) - 1) : Len(body[i]) = ARMOR_WIDTH
           /\ body[Len(body)] # << >>
           /\ Flatten(body) = Base64_encode(data)

(***************************************************************************)
(* The StructWriter domain: a StrictWriter over a Vec, the StructWriter     *)
(* write_struct makes of it, and the fields written through it.            *)
(***************************************************************************)
InitSw ==
    /\ \E limit \in SwLimits : sw = [ st |-> "strict", writer |-> StrictWriter_in_memory(limit) ]
    /\ swWrap \in BOOLEAN
    /\ swLog = << >>
    /\ swRes = Unset
    /\ OnlySw

\* writer.write_struct(ns, name)
SwWriteStruct ==
    /\ sw.st = "strict"
    /\ sw' = [ st |-> "struct", writer |-> StrictWriter_write_struct(sw.writer, "lib", Some("T")) ]
    /\ UNCHANGED <<swWrap, swLog, swRes, othersSw>>

\* What a call that returned res leaves of the StructWriter it consumed.
SwAfter(res) == IF res.st = "ok" THEN [ st |-> "struct", writer |-> res.val ] ELSE [ st |-> "dropped" ]

\* writer.write_field(name, &value)
SwWriteField ==
    /\ sw.st = "struct" /\ Len(swLog) < MaxCalls
    /\ \E name \in SwNames, value \in SwValues :
        LET res == StructWriter_write_field(sw.writer, name, value, swWrap)
        IN /\ sw' = SwAfter(res)
           /\ swLog' = Append(swLog, [ fn |-> "write_field", name |-> name, ord |-> None, value |-> value ])
           /\ swRes' = res
    /\ UNCHANGED <<swWrap, othersSw>>

\* writer.write_field_ord(name, ord, &value)
SwWriteFieldOrd ==
    /\ sw.st = "struct" /\ Len(swLog) < MaxCalls
    /\ \E name \in SwNames, ord \in SwOrds, value \in SwValues :
        LET res == StructWriter_write_field_ord(sw.writer, name, ord, value, swWrap)
        IN /\ sw' = SwAfter(res)
           /\ swLog' = Append(swLog, [ fn |-> "write_field_ord", name |-> name, ord |-> Some(ord), value |-> value ])
           /\ swRes' = res
    /\ UNCHANGED <<swWrap, othersSw>>

\* writer.complete()
SwComplete ==
    /\ sw.st = "struct"
    /\ sw' = [ st |-> "complete", writer |-> StructWriter_complete(sw.writer) ]
    /\ UNCHANGED <<swWrap, swLog, swRes, othersSw>>

NextSw == SwWriteStruct \/ SwWriteField \/ SwWriteFieldOrd \/ SwComplete

SpecSw == InitSw /\ [][NextSw]_vars

\* The bytes in the Vec under the writer of the current state.
SwBytes ==
    IF sw.st = "struct" THEN StrictWriter_unbox(sw.writer.writer).slices
    ELSE StrictWriter_unbox(sw.writer).slices

\* The encodings of the values of the calls, one after the other.
RECURSIVE SwEncodings(_)
SwEncodings(log) ==
    IF log = << >> THEN << >>
    ELSE Value_encoding(Head(log).value) \o SwEncodings(Tail(log))

\* C21: the bytes written through a StructWriter are the encodings of the
\* values of its write_field and write_field_ord calls, one after the other in
\* the order of the calls; and a call returns the same with any field name and
\* any ord, and the same as write_field or as write_field_ord.
C21_CallOrder ==
    /\ sw.st \in {"struct", "complete"} => SwBytes = SwEncodings(swLog)
    /\ sw.st = "struct" =>
         \A value \in SwValues, name \in SwNames, ord \in SwOrds :
            /\ StructWriter_write_field(sw.writer, name, value, swWrap)
               = StructWriter_write_field(sw.writer, "a", value, swWrap)
            /\ StructWriter_write_field_ord(sw.writer, name, ord, value, swWrap)
               = StructWriter_write_field(sw.writer, "a", value, swWrap)

\* C21 witness: a struct was completed after field "b" with ord 1 and then
\* field "a" with ord 0 were written, with different values.
C21_Witness ==
    /\ sw.st = "complete" /\ Len(swLog) >= 2
    /\ swLog[1].name = "b" /\ swLog[1].ord = Some(1)
    /\ swLog[2].name = "a" /\ swLog[2].ord = Some(0)
    /\ swLog[1].value # swLog[2].value
    /\ SwBytes = Value_encoding(swLog[1].value) \o Value_encoding(swLog[2].value)
           \o SwEncodings(SubSeq(swLog, 3, Len(swLog)))

\* C9: Cls and u8 round-trip. Once Cls::try_from(b) has returned: for b in 0..=10
\* it is Ok of a class whose discriminant is b; for b > 10 it is the
\* unknown-variant error carrying b; and when b was obtained as `c as u8` the
\* result is Ok(c).
C9_ClsRoundTrip ==
    clsRes # Unset =>
        /\ byte <= 10 => clsRes.st = "ok" /\ clsRes.val \in ClsValues /\ ClsAsU8(clsRes.val) = byte
        /\ byte > 10 => clsRes = Err([type |-> "Cls", value |-> byte])
        /\ cls # NoCls => clsRes = Ok(cls)

\* C9 witness: the class Map went through `as u8` and back.
C9_Witness == cls = "Map" /\ byte = 10 /\ clsRes = Ok("Map")
====
